---- MODULE Spec2Model ----
(***************************************************************************)
(* ExperimentTrendsQueryRunner                                             *)
(* (posthog/hogql_queries/experiments/experiment_trends_query_runner.py).  *)
(*                                                                         *)
(* Specifications over the same variables:                                 *)
(*   SpecConstruct applies the query preparation of __init__ to every      *)
(*                 shape of experiment query;                              *)
(*   SpecCache     applies cache_target_age and _is_stale;                 *)
(*   SpecValidate  applies _validate_event_variants to result sets drawn   *)
(*                 from bounded sets;                                      *)
(*   SpecStats     applies _get_variants_with_base_stats likewise;         *)
(*   Spec          is one call of calculate(): the two queries (inline or  *)
(*                 in two threads), the error checks, validation,          *)
(*                 observation building, engine selection, the response;   *)
(*   SpecLive      is calculate() with its scheduling assumptions.         *)
(***************************************************************************)
EXTENDS Integers, Sequences, FiniteSets, TLC

\* ------------------------------------------------------------------ bounds
MaxCountRows == 3
MaxExposureRows == 2
MaxExposure == 2
CalcMaxCountRows == 2
CalcMaxExposureRows == 1
MaxSeries == 2
MaxRefresh == 2
MaxNow == 27

\* --------------------------------------------------------------- constants
CONTROL_VARIANT_KEY == "control"
NoneKey == "None"
SIGNIFICANT == "significant"

\* A result row is a dict; only its "breakdown_value" and "count" entries are
\* read.  The empty dict {} is the row whose reads give the defaults of
\* result.get("breakdown_value") and result.get("count", 0).
EmptyRow == [breakdown_value |-> NoneKey, count |-> 0]

Row(k, n) == [breakdown_value |-> k, count |-> n]

\* keys a breakdown can produce: control, a configured test variant, and a
\* value that is not a configured variant
BreakdownKeys == {CONTROL_VARIANT_KEY, "test", "other"}

\* the "count" of a count row is only copied into the observation
EventCounts == {0, 1}

CountRows == {Row(k, n) : k \in BreakdownKeys, n \in EventCounts} \cup {EmptyRow}

ExposureRows ==
    {Row(k, n) : k \in {CONTROL_VARIANT_KEY, "test"}, n \in 0..MaxExposure}

\* the rows the two queries of a calculate() call are drawn from
CalcCountRows == {Row(k, 1) : k \in BreakdownKeys} \cup {EmptyRow}

CalcExposureRows == {Row(k, n) : k \in {CONTROL_VARIANT_KEY, "test"}, n \in {0, 1}}

SeqsUpTo(S, n) == UNION {[1..m -> S] : m \in 0..n}

NoneValue == [kind |-> "None", results |-> <<>>]

TrendsQueryResponse(rows) == [kind |-> "TrendsQueryResponse", results |-> rows]

VARIABLES
    query,                \* self.query: count_query and exposure_query
    ctor,                 \* __init__: position, prepared queries, runners
    clock,                \* last_refresh and datetime.now(UTC), in hours
    cache,                \* what cache_target_age and _is_stale returned
    variants,             \* self.variants
    stats_config_version, \* experiment.get_stats_config("version")
    stats_version,        \* self.stats_version
    series_math,          \* self.query.count_query.series[0].math
    IN_UNIT_TESTING,      \* settings.IN_UNIT_TESTING
    query_outcome,        \* what each TrendsQueryRunner.calculate() will do
    shared_results,       \* calculate: shared_results
    errors,               \* calculate: errors
    pc,                   \* position of the thread running calculate
    tpc,                  \* position of each run(...) invocation
    calls,                \* number of query_runner.calculate() calls, per query
    closed,               \* number of connection.close() calls, per query
    count_result,         \* calculate: count_result
    exposure_result,      \* calculate: exposure_result
    validation,           \* outcome of _validate_event_variants
    stats,                \* outcome of _get_variants_with_base_stats
    engine,               \* engine operations invoked and what they returned
    outcome               \* what calculate returned or raised

vars == <<query, ctor, clock, cache, variants, stats_config_version, stats_version, series_math,
          IN_UNIT_TESTING, query_outcome, shared_results, errors, pc, tpc,
          calls, closed, count_result, exposure_result, validation, stats,
          engine, outcome>>

\* ------------------------------------------------- _validate_event_variants
Get_breakdown_value(row) == row.breakdown_value

Get_count(row) == row.count

AllErrors ==
    [no_exposures |-> TRUE, no_events |-> TRUE, no_flag_info |-> TRUE,
     no_control_variant |-> TRUE, no_test_variant |-> TRUE]

\* `if exposure_result.results:`
ExposureTruthy(exposure_results) == Len(exposure_results) > 0

\* variant: only the length is tested, the first row is not
CountMissing_LengthOnly(count_results) == Len(count_results) = 0

\* `not count_result.results or not count_result.results[0]`
CountMissing(count_results) ==
    \/ Len(count_results) = 0
    \/ count_results[1] = EmptyRow

\* variant: only the first event is looked at
ControlPresent_FirstOnly(count_results) ==
    /\ Len(count_results) > 0
    /\ Get_breakdown_value(count_results[1]) = "control"

\* first loop: some event has breakdown_value == "control"
ControlPresent(count_results) ==
    \E i \in 1..Len(count_results) :
        Get_breakdown_value(count_results[i]) = "control"

\* variant: control is not filtered out of the configured variants
ConfiguredTestVariants_All(vs) == {vs[i] : i \in 1..Len(vs)}

\* test_variants = [variant for variant in self.variants if variant != "control"]
ConfiguredTestVariants(vs) ==
    {vs[i] : i \in {j \in 1..Len(vs) : vs[j] # "control"}}

\* second loop: some event has a breakdown_value in test_variants
TestVariantPresent(count_results, vs) ==
    \E i \in 1..Len(count_results) :
        Get_breakdown_value(count_results[i]) \in ConfiguredTestVariants(vs)

\* any(errors.values())
AnyError(e) ==
    e.no_exposures \/ e.no_events \/ e.no_flag_info
        \/ e.no_control_variant \/ e.no_test_variant

_validate_event_variants(count_results, exposure_results, vs) ==
    LET e1 == IF ExposureTruthy(exposure_results)
              THEN [AllErrors EXCEPT !.no_exposures = FALSE]
              ELSE AllErrors
    IN  IF CountMissing(count_results)
        THEN [raised |-> TRUE, code |-> "no-results", errors |-> e1]
        ELSE LET e2 == [e1 EXCEPT !.no_events = FALSE]
                 e3 == IF ControlPresent(count_results)
                       THEN [e2 EXCEPT !.no_control_variant = FALSE,
                                       !.no_flag_info = FALSE]
                       ELSE e2
                 e4 == IF TestVariantPresent(count_results, vs)
                       THEN [e3 EXCEPT !.no_test_variant = FALSE,
                                       !.no_flag_info = FALSE]
                       ELSE e3
             IN  [raised |-> AnyError(e4), code |-> "invalid", errors |-> e4]

\* -------------------------------------------- _get_variants_with_base_stats
\* a ratio count / control_exposure is kept as the exact fraction
Ratio(n, d) == [num |-> n, den |-> d]

KeysOf(results) == {Get_breakdown_value(results[i]) : i \in 1..Len(results)}

LastIndex(results, k) ==
    CHOOSE i \in 1..Len(results) :
        /\ Get_breakdown_value(results[i]) = k
        /\ \A j \in (i+1)..Len(results) : Get_breakdown_value(results[j]) # k

\* exposure_counts[breakdown_value] = count, in the order of the rows
ExposureCounts(exposure_results) ==
    [k \in KeysOf(exposure_results) |->
        Get_count(exposure_results[LastIndex(exposure_results, k)])]

\* exposure_counts.get(key, 0)
ExposureGet(exposure_counts, k) ==
    IF k \in DOMAIN exposure_counts THEN exposure_counts[k] ELSE 0

\* variant: the ratios are computed without the `control_exposure != 0` guard
ExposureRatios_Unguarded(exposure_counts) ==
    [k \in DOMAIN exposure_counts |->
        Ratio(exposure_counts[k],
              ExposureGet(exposure_counts, CONTROL_VARIANT_KEY))]

\* exposure_ratios, filled only `if control_exposure != 0`
ExposureRatios(exposure_counts) ==
    LET control_exposure == ExposureGet(exposure_counts, CONTROL_VARIANT_KEY)
    IN  IF control_exposure # 0
        THEN [k \in DOMAIN exposure_counts |->
                 Ratio(exposure_counts[k], control_exposure)]
        ELSE [k \in {} |-> Ratio(0, 1)]

\* exposure_ratios.get(key, 0)
RatioGet(exposure_ratios, k) ==
    IF k \in DOMAIN exposure_ratios THEN exposure_ratios[k] ELSE Ratio(0, 1)

ExperimentVariantTrendsBaseStats(k, c, e, a) ==
    [key |-> k, count |-> c, exposure |-> e, absolute_exposure |-> a]

NoVariant == ExperimentVariantTrendsBaseStats(NoneKey, 0, Ratio(0, 1), 0)

ControlStats(result, exposure_counts) ==
    ExperimentVariantTrendsBaseStats(
        Get_breakdown_value(result), Get_count(result), Ratio(1, 1),
        ExposureGet(exposure_counts, Get_breakdown_value(result)))

TestStats(result, exposure_counts, exposure_ratios) ==
    ExperimentVariantTrendsBaseStats(
        Get_breakdown_value(result), Get_count(result),
        RatioGet(exposure_ratios, Get_breakdown_value(result)),
        ExposureGet(exposure_counts, Get_breakdown_value(result)))

IsControlRow(result) == Get_breakdown_value(result) = CONTROL_VARIANT_KEY

\* the loop over count_results.results: [control_variant, test_variants]
RECURSIVE CountLoop(_, _, _, _, _)
CountLoop(count_results, i, exposure_counts, control_variant, test_variants) ==
    IF i > Len(count_results)
    THEN [control_variant |-> control_variant, test_variants |-> test_variants]
    ELSE IF IsControlRow(count_results[i])
         THEN CountLoop(count_results, i + 1, exposure_counts,
                        <<ControlStats(count_results[i], exposure_counts)>>,
                        test_variants)
         ELSE CountLoop(count_results, i + 1, exposure_counts,
                        control_variant,
                        Append(test_variants,
                               TestStats(count_results[i], exposure_counts,
                                         ExposureRatios(exposure_counts))))

\* variant: the `if control_variant is None: raise` check is missing
_get_variants_with_base_stats_NoRaise(count_results, exposure_results) ==
    LET exposure_counts == ExposureCounts(exposure_results)
        r == CountLoop(count_results, 1, exposure_counts, <<>>, <<>>)
    IN  [raised |-> FALSE,
         control_variant |-> IF r.control_variant = <<>> THEN NoVariant
                             ELSE r.control_variant[1],
         test_variants |-> r.test_variants]

\* control_variant is <<>> for None, <<v>> for a value
_get_variants_with_base_stats(count_results, exposure_results) ==
    LET exposure_counts == ExposureCounts(exposure_results)
        r == CountLoop(count_results, 1, exposure_counts, <<>>, <<>>)
    IN  IF r.control_variant = <<>>
        THEN [raised |-> TRUE, control_variant |-> NoVariant,
              test_variants |-> <<>>]
        ELSE [raised |-> FALSE, control_variant |-> r.control_variant[1],
              test_variants |-> r.test_variants]

\* ------------------------------------------------------------- __init__
\* get_stats_config("version") is None when the experiment sets no version
NoVersion == 0

StatsConfigVersions == {NoVersion, 1, 2, 3}

\* variant: an unset version defaults to 2
StatsVersion_Default2(v) == IF v = NoVersion THEN 2 ELSE v

\* self.stats_version = self.experiment.get_stats_config("version") or 1
StatsVersion(v) == IF v = NoVersion THEN 1 ELSE v

\* series[0].math: unset, a count-type math, a property aggregation
SeriesMaths == {NoneKey, "total", "sum"}

\* self.variants: the flag's variant keys
VariantConfigs == {<<"control", "test">>}

\* --------------------------------------------- __init__: prepared queries
\* posthog.queries.trends.util: the property and per-actor math functions
ALL_SUPPORTED_MATH_FUNCTIONS == {"sum", "avg"}

\* series[i].math: unset, count-type maths, property aggregations
NodeMaths == {NoneKey, "total", "sum", "avg"}

NodeKinds == {"EventsNode", "ActionsNode", "DataWarehouseNode"}

Node(kind, math) == [kind |-> kind, math |-> math]

Nodes == {Node(k, m) : k \in NodeKinds, m \in NodeMaths}

ExperimentTrendsQuery(series, has_exposure_query) ==
    [count_query |-> [series |-> series], exposure_query |-> has_exposure_query]

Queries ==
    {ExperimentTrendsQuery(s, e) :
        s \in UNION {[1..m -> Nodes] : m \in 1..MaxSeries}, e \in BOOLEAN}

\* math_keys without "sum"; any(entity.math in math_keys for entity in series)
_uses_math_aggregation_by_user_or_property_value(q) ==
    \E i \in 1..Len(q.series) :
        q.series[i].math \in (ALL_SUPPORTED_MATH_FUNCTIONS \ {"sum"})

\* isinstance(query.series[0], DataWarehouseNode)
_is_data_warehouse_query(q) == q.series[1].kind = "DataWarehouseNode"

\* hasattr(count_event, "event")
HasEvent(node) == node.kind = "EventsNode"

_prepare_count_query(q) ==
    [series |-> IF _uses_math_aggregation_by_user_or_property_value(q.count_query)
                THEN [q.count_query.series EXCEPT ![1].math = "sum"]
                ELSE q.count_query.series,
     breakdown_type |-> IF _is_data_warehouse_query(q.count_query)
                        THEN "data_warehouse" ELSE "event"]

PreparedExposure(case, series, breakdown, breakdown_type) ==
    [raised |-> FALSE, error |-> "none", case |-> case, series |-> series,
     breakdown |-> breakdown, breakdown_type |-> breakdown_type]

ExposureError(kind, detail) ==
    [raised |-> TRUE, error |-> kind, case |-> "implicit", detail |-> detail]

_prepare_exposure_query(q) ==
    IF _uses_math_aggregation_by_user_or_property_value(q.count_query)
    THEN IF _is_data_warehouse_query(q.count_query)
         THEN PreparedExposure("implicit",
                  [q.count_query.series EXCEPT ![1].math = "dau"],
                  "events.properties.$feature/flag", "data_warehouse")
         ELSE IF HasEvent(q.count_query.series[1])
              THEN PreparedExposure("implicit", <<Node("EventsNode", "dau")>>,
                                    "$feature/flag", "event")
              ELSE ExposureError("ValueError",
                       "Expected first series item to have an 'event' attribute")
    ELSE IF q.exposure_query /\ ~_is_data_warehouse_query(q.count_query)
         THEN PreparedExposure("provided", <<Node("EventsNode", "exposure")>>,
                               "$feature/flag", "event")
         ELSE PreparedExposure("default", <<Node("EventsNode", "dau")>>,
                               "$feature_flag_response", "event")

CtorAt(at, pcq, peq, runners) ==
    [at |-> at, prepared_count_query |-> pcq, prepared_exposure_query |-> peq,
     runners |-> runners]

Runners == {"count_query_runner", "exposure_query_runner"}

\* the runner once __init__ has returned
Constructed(q) ==
    CtorAt("constructed", <<_prepare_count_query(q)>>,
           <<_prepare_exposure_query(q)>>, Runners)

\* line 72
InitPrepareCount ==
    /\ ctor.at = "prepare_count"
    /\ ctor' = CtorAt("prepare_exposure", <<_prepare_count_query(query)>>,
                      <<>>, {})
    /\ UNCHANGED <<query, clock, cache, variants, stats_config_version,
                   stats_version, series_math, IN_UNIT_TESTING, query_outcome,
                   shared_results, errors, pc, tpc, calls, closed,
                   count_result, exposure_result, validation, stats, engine,
                   outcome>>

\* line 73: a raise leaves __init__
InitPrepareExposure ==
    /\ ctor.at = "prepare_exposure"
    /\ LET r == _prepare_exposure_query(query)
       IN  ctor' = CtorAt(IF r.raised THEN "raised" ELSE "create_runners",
                          ctor.prepared_count_query, <<r>>, ctor.runners)
    /\ UNCHANGED <<query, clock, cache, variants, stats_config_version,
                   stats_version, series_math, IN_UNIT_TESTING, query_outcome,
                   shared_results, errors, pc, tpc, calls, closed,
                   count_result, exposure_result, validation, stats, engine,
                   outcome>>

\* lines 75-80
InitCreateRunners ==
    /\ ctor.at = "create_runners"
    /\ ctor' = CtorAt("constructed", ctor.prepared_count_query,
                      ctor.prepared_exposure_query, Runners)
    /\ UNCHANGED <<query, clock, cache, variants, stats_config_version,
                   stats_version, series_math, IN_UNIT_TESTING, query_outcome,
                   shared_results, errors, pc, tpc, calls, closed,
                   count_result, exposure_result, validation, stats, engine,
                   outcome>>

\* ------------------------------------------- cache_target_age, _is_stale
CacheTargetHours == 24

StaleAfterHours == 24

\* Optional[datetime]: <<>> for None, <<t>> for the hour t
cache_target_age(last_refresh) ==
    IF last_refresh = <<>> THEN <<>> ELSE <<last_refresh[1] + CacheTargetHours>>

\* variant: a result is stale from 24 hours on
_is_stale_Inclusive(last_refresh, now) ==
    IF last_refresh = <<>> THEN TRUE
    ELSE (now - last_refresh[1]) >= StaleAfterHours

_is_stale(last_refresh, now) ==
    IF last_refresh = <<>> THEN TRUE
    ELSE (now - last_refresh[1]) > StaleAfterHours

NotCached == [target_age |-> <<>>, is_stale |-> <<>>]

CallCacheTargetAge ==
    /\ cache.target_age = <<>>
    /\ cache' = [cache EXCEPT
                    !.target_age = <<cache_target_age(clock.last_refresh)>>]
    /\ UNCHANGED <<query, ctor, clock, variants, stats_config_version,
                   stats_version, series_math, IN_UNIT_TESTING, query_outcome,
                   shared_results, errors, pc, tpc, calls, closed,
                   count_result, exposure_result, validation, stats, engine,
                   outcome>>

CallIsStale ==
    /\ cache.is_stale = <<>>
    /\ cache' = [cache EXCEPT
                    !.is_stale = <<_is_stale(clock.last_refresh, clock.now)>>]
    /\ UNCHANGED <<query, ctor, clock, variants, stats_config_version,
                   stats_version, series_math, IN_UNIT_TESTING, query_outcome,
                   shared_results, errors, pc, tpc, calls, closed,
                   count_result, exposure_result, validation, stats, engine,
                   outcome>>

\* ------------------------------------------------------ calculate: engines
\* `if self.query.count_query.series[0].math:`
MathTruthy(math) == math # NoneKey

EngineOps(name) ==
    [probabilities |-> name, significance |-> name,
     credible_intervals |-> name]

\* the branch of lines 322-338: which function performs each operation
EngineSelection(sv, math) ==
    IF sv = 2
    THEN IF MathTruthy(math)
         THEN EngineOps("v2_continuous")
         ELSE EngineOps("v2_count")
    ELSE EngineOps("legacy")

\* ExperimentSignificanceCode
SignificanceCodes ==
    {SIGNIFICANT, "not_enough_exposure", "low_win_probability",
     "high_loss_risk", "not_significant"}

ProbabilityValues == {0, 1}

\* calculate_probabilities*: one probability per variant, control first
ProbabilityLists(n) == [1..n -> ProbabilityValues]

\* ----------------------------------------------------- calculate: response
\* variant: control is listed after the test variants
AllVariants_ControlLast(control_variant, test_variants) ==
    test_variants \o <<control_variant>>

\* [control_variant, *test_variants]
AllVariants(control_variant, test_variants) ==
    <<control_variant>> \o test_variants

DictHas(d, k) == \E i \in 1..Len(d) : d[i].key = k

\* d[k] = v on an insertion-ordered dict
DictSet(d, k, v) ==
    IF DictHas(d, k)
    THEN [i \in 1..Len(d) |->
             IF d[i].key = k THEN [key |-> k, value |-> v] ELSE d[i]]
    ELSE Append(d, [key |-> k, value |-> v])

Min(a, b) == IF a < b THEN a ELSE b

\* {variant.key: probability for variant, probability in zip(vs, ps)}
RECURSIVE ZipDict(_, _, _, _)
ZipDict(vs, ps, i, d) ==
    IF i > Min(Len(vs), Len(ps))
    THEN d
    ELSE ZipDict(vs, ps, i + 1, DictSet(d, vs[i].key, ps[i]))

\* variant: everything but "not_significant" counts as significant
Significant_NotNegative(significance_code) ==
    significance_code # "not_significant"

\* significant=significance_code == ExperimentSignificanceCode.SIGNIFICANT
Significant(significance_code) == significance_code = SIGNIFICANT

ExperimentTrendsQueryResponse(cr, control_variant, test_variants, eng, sv) ==
    [kind |-> "ExperimentTrendsQuery",
     insight |-> cr.results,
     variants |-> AllVariants(control_variant, test_variants),
     probability |-> ZipDict(AllVariants(control_variant, test_variants),
                             eng.probabilities, 1, <<>>),
     significant |-> Significant(eng.significance_code),
     significance_code |-> eng.significance_code,
     stats_version |-> sv,
     p_value |-> eng.ops.significance,
     credible_intervals |-> eng.ops.credible_intervals]

\* ------------------------------------------------------------ calculate
\* jobs, in the order they are run or started
Jobs ==
    <<[runner |-> "count_query_runner", result_key |-> "count_result"],
      [runner |-> "exposure_query_runner", result_key |-> "exposure_result"]>>

JobIds == 1..Len(Jobs)

Returns(v) == [kind |-> "returns", value |-> v, error |-> "none"]

Raises(e) == [kind |-> "raises", value |-> NoneValue, error |-> e]

QueryOutcomes(rows, n, e) ==
    {Returns(TrendsQueryResponse(r)) : r \in SeqsUpTo(rows, n)}
        \cup {Returns(NoneValue), Raises(e)}

At(a, i) == [at |-> a, i |-> i]

\* variant: the connection is closed after the inline calls too
is_parallel_Always == TRUE

\* run(..., is_parallel): False for the inline calls, True in the threads
is_parallel == ~IN_UNIT_TESTING

SharedResultsInit == [count_result |-> NoneValue, exposure_result |-> NoneValue]

Idle == [j \in JobIds |-> "idle"]

Zero == [j \in JobIds |-> 0]

\* a constructed runner whose metric is one event series with the given math
InitConstructed ==
    /\ query = ExperimentTrendsQuery(<<Node("EventsNode", series_math)>>, FALSE)
    /\ ctor = Constructed(query)

InitCommon ==
    /\ clock = [last_refresh |-> <<>>, now |-> 0]
    /\ cache = NotCached
    /\ variants \in VariantConfigs
    /\ shared_results = SharedResultsInit
    /\ errors = <<>>
    /\ tpc = Idle
    /\ calls = Zero
    /\ closed = Zero
    /\ validation = <<>>
    /\ stats = <<>>
    /\ engine = <<>>
    /\ outcome = <<>>

Init ==
    /\ InitCommon
    /\ stats_config_version \in StatsConfigVersions
    /\ stats_version = StatsVersion(stats_config_version)
    /\ series_math \in SeriesMaths
    /\ InitConstructed
    /\ IN_UNIT_TESTING \in BOOLEAN
    /\ query_outcome \in
         [count_query_runner :
              QueryOutcomes(CalcCountRows, CalcMaxCountRows, "count_error"),
          exposure_query_runner :
              QueryOutcomes(CalcExposureRows, CalcMaxExposureRows,
                            "exposure_error")]
    /\ count_result = NoneValue
    /\ exposure_result = NoneValue
    /\ pc = At("start", 0)

\* lines 281-298 and the first inline call or the creation of the jobs
Begin ==
    /\ pc = At("start", 0)
    /\ shared_results' = SharedResultsInit
    /\ errors' = <<>>
    /\ IF IN_UNIT_TESTING
       THEN /\ pc' = At("run", 1)
            /\ tpc' = [tpc EXCEPT ![1] = "call"]
       ELSE /\ pc' = At("start_jobs", 1)
            /\ tpc' = tpc
    /\ UNCHANGED <<query, ctor, clock, cache,
                   variants, stats_config_version, stats_version, series_math,
                   IN_UNIT_TESTING, query_outcome, calls, closed, count_result,
                   exposure_result, validation, stats, engine, outcome>>

\* line 299-300: an inline run(...) has returned
RunReturn ==
    /\ pc.at = "run"
    /\ tpc[pc.i] = "done"
    /\ IF pc.i < Len(Jobs)
       THEN /\ pc' = At("run", pc.i + 1)
            /\ tpc' = [tpc EXCEPT ![pc.i + 1] = "call"]
       ELSE /\ pc' = At("check_errors", 0)
            /\ tpc' = tpc
    /\ UNCHANGED <<query, ctor, clock, cache,
                   variants, stats_config_version, stats_version, series_math,
                   IN_UNIT_TESTING, query_outcome, shared_results, errors,
                   calls, closed, count_result, exposure_result, validation,
                   stats, engine, outcome>>

\* variant: only the first job is started
StartJob_OnlyFirst ==
    /\ pc.at = "start_jobs"
    /\ tpc' = IF pc.i = 1 THEN [tpc EXCEPT ![pc.i] = "call"] ELSE tpc
    /\ pc' = IF pc.i < Len(Jobs) THEN At("start_jobs", pc.i + 1)
                                 ELSE At("join", 1)
    /\ UNCHANGED <<query, ctor, clock, cache,
                   variants, stats_config_version, stats_version, series_math,
                   IN_UNIT_TESTING, query_outcome, shared_results, errors,
                   calls, closed, count_result, exposure_result, validation,
                   stats, engine, outcome>>

\* line 306: [j.start() for j in jobs]
StartJob ==
    /\ pc.at = "start_jobs"
    /\ tpc' = [tpc EXCEPT ![pc.i] = "call"]
    /\ pc' = IF pc.i < Len(Jobs) THEN At("start_jobs", pc.i + 1)
                                 ELSE At("join", 1)
    /\ UNCHANGED <<query, ctor, clock, cache,
                   variants, stats_config_version, stats_version, series_math,
                   IN_UNIT_TESTING, query_outcome, shared_results, errors,
                   calls, closed, count_result, exposure_result, validation,
                   stats, engine, outcome>>

\* line 307: [j.join() for j in jobs]
JoinJob ==
    /\ pc.at = "join"
    /\ tpc[pc.i] = "done"
    /\ pc' = IF pc.i < Len(Jobs) THEN At("join", pc.i + 1)
                                 ELSE At("check_errors", 0)
    /\ UNCHANGED <<query, ctor, clock, cache,
                   variants, stats_config_version, stats_version, series_math,
                   IN_UNIT_TESTING, query_outcome, shared_results, errors,
                   tpc, calls, closed, count_result, exposure_result,
                   validation, stats, engine, outcome>>

\* line 286: result = query_runner.calculate()
RunCall(j) ==
    /\ tpc[j] = "call"
    /\ calls' = [calls EXCEPT ![j] = @ + 1]
    /\ tpc' = [tpc EXCEPT ![j] =
                  IF query_outcome[Jobs[j].runner].kind = "raises"
                  THEN "except" ELSE "store"]
    /\ UNCHANGED <<query, ctor, clock, cache,
                   variants, stats_config_version, stats_version, series_math,
                   IN_UNIT_TESTING, query_outcome, shared_results, errors, pc,
                   closed, count_result, exposure_result, validation, stats,
                   engine, outcome>>

\* variant: every run(...) writes the count slot
StoreKey_Shared(j) == "count_result"

\* the slot run(...) writes: its result_key argument
StoreKey(j) == Jobs[j].result_key

\* line 287: shared_results[result_key] = result
RunStore(j) ==
    /\ tpc[j] = "store"
    /\ shared_results' =
         [shared_results EXCEPT ![StoreKey(j)] =
              query_outcome[Jobs[j].runner].value]
    /\ tpc' = [tpc EXCEPT ![j] = "finally"]
    /\ UNCHANGED <<query, ctor, clock, cache,
                   variants, stats_config_version, stats_version, series_math,
                   IN_UNIT_TESTING, query_outcome, errors, pc, calls, closed,
                   count_result, exposure_result, validation, stats, engine,
                   outcome>>

\* variant: a failed query is called a second time
RunExcept_Retry(j) ==
    /\ tpc[j] = "except"
    /\ errors' = Append(errors, query_outcome[Jobs[j].runner].error)
    /\ tpc' = [tpc EXCEPT ![j] = IF calls[j] < 2 THEN "call" ELSE "finally"]
    /\ UNCHANGED <<query, ctor, clock, cache,
                   variants, stats_config_version, stats_version, series_math,
                   IN_UNIT_TESTING, query_outcome, shared_results, pc, calls,
                   closed, count_result, exposure_result, validation, stats,
                   engine, outcome>>

\* lines 288-289: errors.append(e)
RunExcept(j) ==
    /\ tpc[j] = "except"
    /\ errors' = Append(errors, query_outcome[Jobs[j].runner].error)
    /\ tpc' = [tpc EXCEPT ![j] = "finally"]
    /\ UNCHANGED <<query, ctor, clock, cache,
                   variants, stats_config_version, stats_version, series_math,
                   IN_UNIT_TESTING, query_outcome, shared_results, pc, calls,
                   closed, count_result, exposure_result, validation, stats,
                   engine, outcome>>

\* lines 290-295: connection.close() when is_parallel
RunFinally(j) ==
    /\ tpc[j] = "finally"
    /\ closed' = IF is_parallel THEN [closed EXCEPT ![j] = @ + 1] ELSE closed
    /\ tpc' = [tpc EXCEPT ![j] = "done"]
    /\ UNCHANGED <<query, ctor, clock, cache,
                   variants, stats_config_version, stats_version, series_math,
                   IN_UNIT_TESTING, query_outcome, shared_results, errors, pc,
                   calls, count_result, exposure_result, validation, stats,
                   engine, outcome>>

Raise(kind, detail) == [kind |-> "raise", error |-> kind, detail |-> detail]

\* variant: the recorded errors are not looked at
CheckErrors_NoRaise ==
    /\ pc = At("check_errors", 0)
    /\ pc' = At("read_results", 0)
    /\ UNCHANGED <<query, ctor, clock, cache,
                   variants, stats_config_version, stats_version, series_math,
                   IN_UNIT_TESTING, query_outcome, shared_results, errors, tpc,
                   calls, closed, count_result, exposure_result, validation,
                   stats, engine, outcome>>

\* variant: the error recorded last is raised
CheckErrors_Last ==
    /\ pc = At("check_errors", 0)
    /\ IF errors # <<>>
       THEN /\ outcome' = <<Raise(errors[Len(errors)], "query")>>
            /\ pc' = At("done", 0)
       ELSE /\ outcome' = outcome
            /\ pc' = At("read_results", 0)
    /\ UNCHANGED <<query, ctor, clock, cache,
                   variants, stats_config_version, stats_version, series_math,
                   IN_UNIT_TESTING, query_outcome, shared_results, errors, tpc,
                   calls, closed, count_result, exposure_result, validation,
                   stats, engine>>

\* lines 310-311: raise errors[0]
CheckErrors ==
    /\ pc = At("check_errors", 0)
    /\ IF errors # <<>>
       THEN /\ outcome' = <<Raise(errors[1], "query")>>
            /\ pc' = At("done", 0)
       ELSE /\ outcome' = outcome
            /\ pc' = At("read_results", 0)
    /\ UNCHANGED <<query, ctor, clock, cache,
                   variants, stats_config_version, stats_version, series_math,
                   IN_UNIT_TESTING, query_outcome, shared_results, errors, tpc,
                   calls, closed, count_result, exposure_result, validation,
                   stats, engine>>

\* lines 313-316
ReadResults ==
    /\ pc = At("read_results", 0)
    /\ count_result' = shared_results["count_result"]
    /\ exposure_result' = shared_results["exposure_result"]
    /\ IF count_result' = NoneValue \/ exposure_result' = NoneValue
       THEN /\ outcome' = <<Raise("ValueError",
                  "One or both query runners failed to produce a response")>>
            /\ pc' = At("done", 0)
       ELSE /\ outcome' = outcome
            /\ pc' = At("validate", 0)
    /\ UNCHANGED <<query, ctor, clock, cache,
                   variants, stats_config_version, stats_version, series_math,
                   IN_UNIT_TESTING, query_outcome, shared_results, errors, tpc,
                   calls, closed, validation, stats, engine>>

\* variant: the analysis goes on after a failed validation
Validate_Continue ==
    /\ pc = At("validate", 0)
    /\ validation' = <<_validate_event_variants(count_result.results,
                                                exposure_result.results,
                                                variants)>>
    /\ pc' = At("stats", 0)
    /\ UNCHANGED <<query, ctor, clock, cache,
                   variants, stats_config_version, stats_version, series_math,
                   IN_UNIT_TESTING, query_outcome, shared_results, errors, tpc,
                   calls, closed, count_result, exposure_result, stats, engine,
                   outcome>>

\* line 318: self._validate_event_variants(count_result, exposure_result)
Validate ==
    /\ pc = At("validate", 0)
    /\ validation' = <<_validate_event_variants(count_result.results,
                                                exposure_result.results,
                                                variants)>>
    /\ IF validation'[1].raised
       THEN /\ outcome' = <<Raise("ValidationError", validation'[1].code)>>
            /\ pc' = At("done", 0)
       ELSE /\ outcome' = outcome
            /\ pc' = At("stats", 0)
    /\ UNCHANGED <<query, ctor, clock, cache,
                   variants, stats_config_version, stats_version, series_math,
                   IN_UNIT_TESTING, query_outcome, shared_results, errors, tpc,
                   calls, closed, count_result, exposure_result, stats, engine>>

\* line 321: self._get_variants_with_base_stats(count_result, exposure_result)
GetVariants ==
    /\ pc = At("stats", 0)
    /\ stats' = <<_get_variants_with_base_stats(count_result.results,
                                                exposure_result.results)>>
    /\ IF stats'[1].raised
       THEN /\ outcome' = <<Raise("ValueError",
                  "Control variant not found in count results")>>
            /\ pc' = At("done", 0)
       ELSE /\ outcome' = outcome
            /\ pc' = At("engine", 0)
    /\ UNCHANGED <<query, ctor, clock, cache,
                   variants, stats_config_version, stats_version, series_math,
                   IN_UNIT_TESTING, query_outcome, shared_results, errors, tpc,
                   calls, closed, count_result, exposure_result, validation,
                   engine>>

\* lines 322-338: the three operations of the selected engine
RunEngine ==
    /\ pc = At("engine", 0)
    /\ \E ps \in ProbabilityLists(1 + Len(stats[1].test_variants)),
          code \in SignificanceCodes :
          engine' = <<[ops |-> EngineSelection(stats_version, series_math),
                       probabilities |-> ps,
                       significance_code |-> code]>>
    /\ pc' = At("respond", 0)
    /\ UNCHANGED <<query, ctor, clock, cache,
                   variants, stats_config_version, stats_version, series_math,
                   IN_UNIT_TESTING, query_outcome, shared_results, errors, tpc,
                   calls, closed, count_result, exposure_result, validation,
                   stats, outcome>>

\* lines 340-355
Respond ==
    /\ pc = At("respond", 0)
    /\ outcome' = <<[kind |-> "return",
                     response |-> ExperimentTrendsQueryResponse(
                         count_result, stats[1].control_variant,
                         stats[1].test_variants, engine[1], stats_version)]>>
    /\ pc' = At("done", 0)
    /\ UNCHANGED <<query, ctor, clock, cache,
                   variants, stats_config_version, stats_version, series_math,
                   IN_UNIT_TESTING, query_outcome, shared_results, errors, tpc,
                   calls, closed, count_result, exposure_result, validation,
                   stats, engine>>

Next ==
    \/ Begin
    \/ RunReturn
    \/ StartJob
    \/ JoinJob
    \/ \E j \in JobIds : RunCall(j)
    \/ \E j \in JobIds : RunStore(j)
    \/ \E j \in JobIds : RunExcept(j)
    \/ \E j \in JobIds : RunFinally(j)
    \/ CheckErrors
    \/ ReadResults
    \/ Validate
    \/ GetVariants
    \/ RunEngine
    \/ Respond

Spec == Init /\ [][Next]_vars

\* ------------------------------------------------- calculate, scheduled
\* the steps of the thread that called calculate
MainStep ==
    \/ Begin
    \/ RunReturn
    \/ StartJob
    \/ JoinJob
    \/ CheckErrors
    \/ ReadResults
    \/ Validate
    \/ GetVariants
    \/ RunEngine
    \/ Respond

\* the steps of one run(...) invocation
RunStep(j) == RunCall(j) \/ RunStore(j) \/ RunExcept(j) \/ RunFinally(j)

\* every thread that can take a step is eventually scheduled, and a query
\* that was called eventually returns or raises
Fairness ==
    /\ WF_vars(MainStep)
    /\ \A j \in JobIds : WF_vars(RunStep(j))

\* one result set of each shape the code tells apart
SampleCountOutcomes ==
    {Raises("count_error"), Returns(NoneValue),
     Returns(TrendsQueryResponse(<<>>)),
     Returns(TrendsQueryResponse(<<Row("control", 1)>>)),
     Returns(TrendsQueryResponse(<<Row("test", 1), Row("control", 1)>>))}

SampleExposureOutcomes ==
    {Raises("exposure_error"), Returns(NoneValue),
     Returns(TrendsQueryResponse(<<>>)),
     Returns(TrendsQueryResponse(<<Row("control", 1), Row("test", 1)>>))}

InitLive ==
    /\ InitCommon
    /\ stats_config_version \in StatsConfigVersions
    /\ stats_version = StatsVersion(stats_config_version)
    /\ series_math \in SeriesMaths
    /\ InitConstructed
    /\ IN_UNIT_TESTING \in BOOLEAN
    /\ query_outcome \in
         [count_query_runner : SampleCountOutcomes,
          exposure_query_runner : SampleExposureOutcomes]
    /\ count_result = NoneValue
    /\ exposure_result = NoneValue
    /\ pc = At("start", 0)

SpecLive == InitLive /\ [][Next]_vars /\ Fairness

\* ------------------------------------------ the pure methods, on any input
InitPure ==
    /\ InitCommon
    /\ stats_config_version = NoVersion
    /\ stats_version = StatsVersion(stats_config_version)
    /\ series_math = NoneKey
    /\ InitConstructed
    /\ IN_UNIT_TESTING = TRUE
    /\ query_outcome = [count_query_runner |-> Returns(NoneValue),
                        exposure_query_runner |-> Returns(NoneValue)]
    /\ count_result \in
         {TrendsQueryResponse(r) : r \in SeqsUpTo(CountRows, MaxCountRows)}
    /\ pc = At("fn", 0)

\* of the exposure results validation reads only whether there are any
InitValidate ==
    /\ InitPure
    /\ exposure_result \in
         {TrendsQueryResponse(r) : r \in SeqsUpTo(ExposureRows, 1)}

InitStats ==
    /\ InitPure
    /\ exposure_result \in
         {TrendsQueryResponse(r) : r \in SeqsUpTo(ExposureRows, MaxExposureRows)}

FnValidate ==
    /\ pc = At("fn", 0)
    /\ validation = <<>>
    /\ validation' = <<_validate_event_variants(count_result.results,
                                                exposure_result.results,
                                                variants)>>
    /\ UNCHANGED <<query, ctor, clock, cache,
                   variants, stats_config_version, stats_version, series_math,
                   IN_UNIT_TESTING, query_outcome, shared_results, errors, pc,
                   tpc, calls, closed, count_result, exposure_result, stats,
                   engine, outcome>>

FnGetVariants ==
    /\ pc = At("fn", 0)
    /\ stats = <<>>
    /\ stats' = <<_get_variants_with_base_stats(count_result.results,
                                                exposure_result.results)>>
    /\ UNCHANGED <<query, ctor, clock, cache,
                   variants, stats_config_version, stats_version, series_math,
                   IN_UNIT_TESTING, query_outcome, shared_results, errors, pc,
                   tpc, calls, closed, count_result, exposure_result,
                   validation, engine, outcome>>

SpecValidate == InitValidate /\ [][FnValidate]_vars

SpecStats == InitStats /\ [][FnGetVariants]_vars

\* --------------------------------------------- __init__ and the cache rules
InitIdle ==
    /\ variants \in VariantConfigs
    /\ stats_config_version = NoVersion
    /\ stats_version = StatsVersion(stats_config_version)
    /\ IN_UNIT_TESTING = TRUE
    /\ query_outcome = [count_query_runner |-> Returns(NoneValue),
                        exposure_query_runner |-> Returns(NoneValue)]
    /\ shared_results = SharedResultsInit
    /\ errors = <<>>
    /\ pc = At("fn", 0)
    /\ tpc = Idle
    /\ calls = Zero
    /\ closed = Zero
    /\ count_result = NoneValue
    /\ exposure_result = NoneValue
    /\ validation = <<>>
    /\ stats = <<>>
    /\ engine = <<>>
    /\ outcome = <<>>

InitConstruct ==
    /\ InitIdle
    /\ query \in Queries
    /\ series_math = query.count_query.series[1].math
    /\ ctor = CtorAt("prepare_count", <<>>, <<>>, {})
    /\ clock = [last_refresh |-> <<>>, now |-> 0]
    /\ cache = NotCached

NextConstruct ==
    \/ InitPrepareCount
    \/ InitPrepareExposure
    \/ InitCreateRunners

SpecConstruct == InitConstruct /\ [][NextConstruct]_vars

InitCache ==
    /\ InitIdle
    /\ series_math = NoneKey
    /\ InitConstructed
    /\ clock \in [last_refresh : {<<>>} \cup {<<t>> : t \in 0..MaxRefresh},
                  now : 0..MaxNow]
    /\ cache = NotCached

NextCache ==
    \/ CallCacheTargetAge
    \/ CallIsStale

SpecCache == InitCache /\ [][NextCache]_vars

\* ================================================================ claims
\* what the claims say about the two series, read off the inputs alone
CountRowsIn == count_result.results

ExposureRowsIn == exposure_result.results

ExposureResultsEmpty == Len(ExposureRowsIn) = 0

CountResultsEmpty == Len(CountRowsIn) = 0

FirstCountRowEmpty == Len(CountRowsIn) > 0 /\ CountRowsIn[1] = EmptyRow

NoControlRow ==
    \A i \in 1..Len(CountRowsIn) : CountRowsIn[i].breakdown_value # "control"

TestKeys == {variants[i] : i \in 1..Len(variants)} \ {"control"}

NoTestRow ==
    \A i \in 1..Len(CountRowsIn) : CountRowsIn[i].breakdown_value \notin TestKeys

Validated == validation # <<>>

\* C1 (as stated): validation raises if and only if the exposure results are
\* empty, the count results are empty, no count row has the control key, or
\* no count row has a configured test-variant key.
C1_RaisesIffFourConditions ==
    Validated =>
        (validation[1].raised <=>
            (ExposureResultsEmpty \/ CountResultsEmpty \/ NoControlRow
                \/ NoTestRow))

\* C1 (amended): validation raises if and only if the exposure results are
\* empty, the count results are empty or their first row is empty, no count
\* row has the control key, or no count row has a configured test-variant
\* key; otherwise it returns without raising.
C1_RaisesIffConditions ==
    Validated =>
        (validation[1].raised <=>
            (ExposureResultsEmpty \/ CountResultsEmpty \/ FirstCountRowEmpty
                \/ NoControlRow \/ NoTestRow))

\* C1 witness: validation raised on an empty first row although exposure,
\* control and test rows are all there
C1_Witness ==
    /\ Validated
    /\ validation[1].raised
    /\ FirstCountRowEmpty
    /\ ~ExposureResultsEmpty /\ ~NoControlRow /\ ~NoTestRow

FlagNames ==
    {"no_exposures", "no_events", "no_flag_info", "no_control_variant",
     "no_test_variant"}

\* C2 (as stated): whenever validation raises, the reason map has the five
\* flags, no_exposures is true exactly when the exposure results are empty,
\* no_events exactly when the count results are empty (an empty first row
\* counts as empty), no_control_variant exactly when no count row has the
\* control key, no_test_variant exactly when no count row has a configured
\* test-variant key.
C2_FlagsReflectRows ==
    (Validated /\ validation[1].raised) =>
        LET e == validation[1].errors
        IN  /\ DOMAIN e = FlagNames
            /\ e.no_exposures <=> ExposureResultsEmpty
            /\ e.no_events <=> (CountResultsEmpty \/ FirstCountRowEmpty)
            /\ e.no_control_variant <=> NoControlRow
            /\ e.no_test_variant <=> NoTestRow

\* C2 (amended): whenever validation raises, the reason map has the five
\* flags, no_exposures is true exactly when the exposure results are empty,
\* no_events exactly when the count results are empty (an empty first row
\* counts as empty), no_control_variant exactly when the count results are
\* empty in that sense or no count row has the control key, no_test_variant
\* exactly when the count results are empty in that sense or no count row
\* has a configured test-variant key.
C2_FlagsReflectInputs ==
    (Validated /\ validation[1].raised) =>
        LET e == validation[1].errors
            empty == CountResultsEmpty \/ FirstCountRowEmpty
        IN  /\ DOMAIN e = FlagNames
            /\ e.no_exposures <=> ExposureResultsEmpty
            /\ e.no_events <=> empty
            /\ e.no_control_variant <=> (empty \/ NoControlRow)
            /\ e.no_test_variant <=> (empty \/ NoTestRow)

\* C2 witness: empty exposure results with count rows for control and a test
\* variant: no_exposures is the only flag set
C2_Witness ==
    /\ Validated
    /\ validation[1].raised
    /\ ExposureResultsEmpty /\ ~FirstCountRowEmpty /\ ~NoControlRow /\ ~NoTestRow
    /\ validation[1].errors =
         [no_exposures |-> TRUE, no_events |-> FALSE, no_flag_info |-> FALSE,
          no_control_variant |-> FALSE, no_test_variant |-> FALSE]

Built == stats # <<>> /\ ~stats[1].raised

Observations == <<stats[1].control_variant>> \o stats[1].test_variants

CountKeys == {CountRowsIn[i].breakdown_value : i \in 1..Len(CountRowsIn)}

ExposureKeys == {ExposureRowsIn[i].breakdown_value : i \in 1..Len(ExposureRowsIn)}

\* C3: observation building joins the two series by variant key: every key
\* present in either series has an observation, with count 0 when the key is
\* missing from the count series and absolute_exposure 0 when it is missing
\* from the exposure series.
C3_JoinOnEitherSeries ==
    Built =>
        \A k \in CountKeys \cup ExposureKeys :
            \E i \in 1..Len(Observations) :
                /\ Observations[i].key = k
                /\ k \notin CountKeys => Observations[i].count = 0
                /\ k \notin ExposureKeys => Observations[i].absolute_exposure = 0

IsZero(r) == r.num = 0 /\ r.den # 0

\* C4: control's exposure ratio is 1; when control's absolute exposure is
\* nonzero every test variant's ratio times control's absolute exposure is
\* the variant's absolute exposure (ratio 0 without an exposure row); when it
\* is zero, or control has no exposure row, every test ratio is 0; no ratio
\* is the result of a division by zero.
C4_ExposureRatios ==
    Built =>
        LET control == stats[1].control_variant
            tests == stats[1].test_variants
        IN  /\ control.exposure.den # 0
            /\ control.exposure.num = control.exposure.den
            /\ \A i \in 1..Len(tests) :
                 /\ tests[i].exposure.den # 0
                 /\ control.absolute_exposure # 0 =>
                      tests[i].exposure.num * control.absolute_exposure
                          = tests[i].absolute_exposure * tests[i].exposure.den
                 /\ tests[i].key \notin ExposureKeys => IsZero(tests[i].exposure)
                 /\ (control.absolute_exposure = 0
                        \/ "control" \notin ExposureKeys) =>
                      IsZero(tests[i].exposure)

\* C4 witness: control exposed twice, a test variant once: ratio 1/2
C4_Witness ==
    /\ Built
    /\ stats[1].control_variant.absolute_exposure = 2
    /\ \E i \in 1..Len(stats[1].test_variants) :
         /\ stats[1].test_variants[i].absolute_exposure = 1
         /\ stats[1].test_variants[i].exposure.num = 1
         /\ stats[1].test_variants[i].exposure.den = 2

\* C5: observation building raises when no count row has the control key,
\* and otherwise returns observations of which exactly one has the control
\* key, however many control rows the count series holds.
C5_ExactlyOneControl ==
    stats # <<>> =>
        IF NoControlRow
        THEN stats[1].raised
        ELSE /\ ~stats[1].raised
             /\ Cardinality({i \in 1..Len(Observations) :
                                Observations[i].key = "control"}) = 1

\* C5 witness: the count series holds two control rows
C5_Witness ==
    /\ Built
    /\ Cardinality({i \in 1..Len(CountRowsIn) :
                       CountRowsIn[i].breakdown_value = "control"}) >= 2
    /\ Len(stats[1].test_variants) >= 1

EngineRan == engine # <<>>

Returned == outcome # <<>> /\ outcome[1].kind = "return"

V2Engines == {"v2_count", "v2_continuous"}

\* C6: the legacy engine is used when the configured version is 1 or unset,
\* a v2 engine when it is 2; the three operations of one calculation come
\* from the same engine; the response reports the version the selection used.
C6_EngineByVersion ==
    /\ EngineRan =>
         LET ops == engine[1].ops
         IN  /\ ops.probabilities = ops.significance
             /\ ops.significance = ops.credible_intervals
             /\ stats_config_version \in {NoVersion, 1} =>
                  ops.probabilities = "legacy"
             /\ stats_config_version = 2 => ops.probabilities \in V2Engines
    /\ Returned =>
         /\ outcome[1].response.stats_version = 1 =>
              engine[1].ops.probabilities = "legacy"
         /\ outcome[1].response.stats_version = 2 =>
              engine[1].ops.probabilities \in V2Engines
         /\ stats_config_version # NoVersion =>
              outcome[1].response.stats_version = stats_config_version
         /\ stats_config_version = NoVersion =>
              outcome[1].response.stats_version = 1

\* C6 witness: a response computed for an experiment with no version set
C6_Witness ==
    /\ Returned
    /\ stats_config_version = NoVersion
    /\ outcome[1].response.stats_version = 1
    /\ engine[1].ops = EngineOps("legacy")

\* a math that is a plain event count: none declared, or a count-type math
CountTypeMath == {NoneKey, "total"}

\* C7: with stats version 2 the continuous engine is used exactly when the
\* metric declares a non-count aggregation, the count engine exactly when it
\* is a plain event count (no math, or a count-type math such as total).
C7_EngineByMetricType ==
    (EngineRan /\ stats_version = 2) =>
        /\ engine[1].ops.probabilities = "v2_continuous"
              <=> series_math \notin CountTypeMath
        /\ engine[1].ops.probabilities = "v2_count"
              <=> series_math \in CountTypeMath

\* C8: in every response, significant is true if and only if
\* significance_code is SIGNIFICANT.
C8_SignificantIffCode ==
    Returned =>
        (outcome[1].response.significant
            <=> outcome[1].response.significance_code = "significant")

\* C8 witness: a response whose code is neither SIGNIFICANT nor the plain
\* negative verdict
C8_Witness ==
    /\ Returned
    /\ outcome[1].response.significance_code = "not_enough_exposure"
    /\ ~outcome[1].response.significant

ResponseVariantKeys ==
    [i \in 1..Len(outcome[1].response.variants) |->
        outcome[1].response.variants[i].key]

ResponseProbabilityKeys ==
    [i \in 1..Len(outcome[1].response.probability) |->
        outcome[1].response.probability[i].key]

InsightKeys ==
    [i \in 1..Len(outcome[1].response.insight) |->
        outcome[1].response.insight[i].breakdown_value]

NonControlKeys == SelectSeq(InsightKeys, LAMBDA k : k # "control")

FirstPos(seq, k) ==
    CHOOSE i \in 1..Len(seq) :
        seq[i] = k /\ \A j \in 1..(i - 1) : seq[j] # k

PastJoin ==
    pc.at \in {"check_errors", "read_results", "validate", "stats", "engine",
               "respond", "done"}

CountQuery == query_outcome["count_query_runner"]

ExposureQuery == query_outcome["exposure_query_runner"]

\* C10: in parallel mode validation and analysis happen only after both
\* threads have finished, and from then on the count slot holds what the
\* count query returned and the exposure slot what the exposure query
\* returned (nothing for a query that raised).
C10_SlotsAfterJoin ==
    ~IN_UNIT_TESTING =>
        /\ (Validated \/ stats # <<>> \/ EngineRan \/ PastJoin) =>
             \A j \in JobIds : tpc[j] = "done"
        /\ PastJoin =>
             /\ shared_results["count_result"] = CountQuery.value
             /\ shared_results["exposure_result"] = ExposureQuery.value
        /\ pc.at \in {"stats", "engine", "respond"} =>
             /\ count_result = CountQuery.value
             /\ exposure_result = ExposureQuery.value

\* C10 witness: both threads returned different result sets and validation
\* is about to run
C10_Witness ==
    /\ ~IN_UNIT_TESTING
    /\ pc.at = "validate"
    /\ CountQuery.kind = "returns" /\ ExposureQuery.kind = "returns"
    /\ CountQuery.value # ExposureQuery.value
    /\ count_result = CountQuery.value
    /\ exposure_result = ExposureQuery.value
    /\ closed = [j \in JobIds |-> 1]

Done == pc = At("done", 0)

Raised == outcome # <<>> /\ outcome[1].kind = "raise"

SomeQueryRaises == CountQuery.kind = "raises" \/ ExposureQuery.kind = "raises"

QueryErrors ==
    {query_outcome[r].error :
        r \in {q \in DOMAIN query_outcome : query_outcome[q].kind = "raises"}}

SomeQueryReturnsNothing ==
    \/ CountQuery.kind = "returns" /\ CountQuery.value = NoneValue
    \/ ExposureQuery.kind = "returns" /\ ExposureQuery.value = NoneValue

\* C11: when a query raises, calculate raises an error that one of the
\* queries raised; a response is returned only when both queries produced a
\* result; a query that returns nothing without raising makes calculate
\* raise "One or both query runners failed to produce a response".
C11_QueryErrorsPropagate ==
    /\ (Done /\ SomeQueryRaises) =>
         /\ Raised
         /\ outcome[1].detail = "query"
         /\ outcome[1].error \in QueryErrors
    /\ Returned =>
         /\ CountQuery.kind = "returns" /\ CountQuery.value # NoneValue
         /\ ExposureQuery.kind = "returns" /\ ExposureQuery.value # NoneValue
    /\ (Done /\ ~SomeQueryRaises /\ SomeQueryReturnsNothing) =>
         /\ Raised
         /\ outcome[1].error = "ValueError"
         /\ outcome[1].detail =
              "One or both query runners failed to produce a response"

\* C11 witness: the count query returned rows, the exposure query raised,
\* and calculate raised the exposure query's error
C11_Witness ==
    /\ Done
    /\ CountQuery.kind = "returns" /\ CountQuery.value # NoneValue
    /\ ExposureQuery.kind = "raises"
    /\ Raised
    /\ outcome[1].error = "exposure_error"

\* C12: one call of calculate invokes each query exactly once, inline or in
\* threads, whether the query returns or raises.
C12_EachQueryOnce ==
    /\ \A j \in JobIds : calls[j] <= 1
    /\ \A j \in JobIds : tpc[j] \notin {"idle", "call"} => calls[j] = 1
    /\ PastJoin => \A j \in JobIds : calls[j] = 1

\* C12 witness: inline mode, the count query raised, and both queries have
\* been called once when calculate ends
C12_Witness ==
    /\ Done
    /\ IN_UNIT_TESTING
    /\ CountQuery.kind = "raises"
    /\ calls = [j \in JobIds |-> 1]

\* C13: an engine operation is invoked only after validation has passed; a
\* run in which a query failed or validation raised invokes no engine
\* operation and builds no response.
C13_EngineAfterValidation ==
    /\ EngineRan => (Validated /\ ~validation[1].raised)
    /\ stats # <<>> => (Validated /\ ~validation[1].raised)
    /\ (SomeQueryRaises \/ (Validated /\ validation[1].raised)) =>
         (~EngineRan /\ ~Returned)

\* C13 witness: validation raised at the end of a run with no engine call
C13_Witness ==
    /\ Done
    /\ Validated
    /\ validation[1].raised
    /\ Raised
    /\ outcome[1].error = "ValidationError"
    /\ ~EngineRan

\* C16: in threaded mode each thread closes its connection exactly once,
\* after its query returned or raised and before the caller gets past join;
\* in inline mode no thread is started and no connection is closed.
C16_ConnectionClosedOncePerThread ==
    /\ IN_UNIT_TESTING =>
         /\ closed = Zero
         /\ pc.at \notin {"start_jobs", "join"}
    /\ ~IN_UNIT_TESTING =>
         /\ pc.at # "run"
         /\ \A j \in JobIds :
              /\ closed[j] <= 1
              /\ closed[j] = 1 <=> tpc[j] = "done"
              /\ closed[j] = 1 => calls[j] = 1
         /\ PastJoin => \A j \in JobIds : closed[j] = 1

\* C16 witness: threaded mode, one thread has closed its connection after
\* its query raised while the other is still in its query
C16_Witness ==
    /\ ~IN_UNIT_TESTING
    /\ pc.at = "join"
    /\ ExposureQuery.kind = "raises"
    /\ closed[2] = 1
    /\ tpc[1] = "call"
    /\ closed[1] = 0

\* C18: whenever validation passes, observation building does not raise and
\* returns control and at least one test variant; calculate never raises
\* "Control variant not found in count results", and no engine runs on an
\* empty list of test variants.
C18_ValidatedImpliesBuilt ==
    /\ (Validated /\ ~validation[1].raised /\ stats # <<>>) =>
         /\ ~stats[1].raised
         /\ stats[1].control_variant.key = "control"
         /\ Len(stats[1].test_variants) >= 1
    /\ Raised =>
         outcome[1].detail # "Control variant not found in count results"
    /\ EngineRan => Len(stats[1].test_variants) >= 1

\* C18 witness: validation passed and the observations were built
C18_Witness ==
    /\ pc = At("engine", 0)
    /\ Validated /\ ~validation[1].raised
    /\ Built
    /\ Len(stats[1].test_variants) >= 1

BothQueriesRaise == CountQuery.kind = "raises" /\ ExposureQuery.kind = "raises"

\* C19: when both queries raise, inline mode raises the count query's error
\* (the exposure query having been run all the same), and threaded mode
\* raises the error that was recorded first, which may be either one.
C19_FirstRecordedError ==
    (Done /\ BothQueriesRaise) =>
        /\ Raised
        /\ Len(errors) = 2
        /\ outcome[1].error = errors[1]
        /\ outcome[1].error \in {"count_error", "exposure_error"}
        /\ IN_UNIT_TESTING =>
             /\ outcome[1].error = "count_error"
             /\ calls[2] = 1

\* C19 witness: threaded mode, both queries raised, and the error raised is
\* the exposure query's
C19_Witness ==
    /\ Done
    /\ ~IN_UNIT_TESTING
    /\ BothQueriesRaise
    /\ errors = <<"exposure_error", "count_error">>
    /\ outcome[1].error = "exposure_error"

\* C19, the other interleaving: threaded mode raising the count query's error
C19_WitnessCountFirst ==
    /\ Done
    /\ ~IN_UNIT_TESTING
    /\ BothQueriesRaise
    /\ outcome[1].error = "count_error"

\* C20: every call of calculate ends, by returning a response or by
\* raising, in every interleaving of the two query threads.
C20_CalculateTerminates == <>(Done /\ outcome # <<>>)

\* C20 witness: a threaded call has ended after its exposure thread
\* finished before its count thread recorded anything
C20_Witness ==
    /\ Done
    /\ ~IN_UNIT_TESTING
    /\ outcome # <<>>
    /\ errors = <<"exposure_error", "count_error">>

FirstSeriesItem == query.count_query.series[1]

MetricUsesMathAggregation ==
    \E i \in 1..Len(query.count_query.series) :
        query.count_query.series[i].math \in {"avg"}

CountQueryIsDataWarehouse == FirstSeriesItem.kind = "DataWarehouseNode"

ExposurePrepared == ctor.prepared_exposure_query # <<>>

\* kinds of exception a caller cannot tell from any other failure
GenericExceptionKinds == {"Exception", "ValueError"}

\* C14: when the metric uses a math aggregation, is not a data-warehouse
\* query and its first series item has no event descriptor, preparing the
\* exposure query fails before any query runner is created, with an error of
\* a dedicated kind, not a generic exception.
C14_UnsupportedSeriesFailsWithClearKind ==
    (/\ ExposurePrepared
     /\ MetricUsesMathAggregation
     /\ ~CountQueryIsDataWarehouse
     /\ FirstSeriesItem.kind # "EventsNode") =>
        /\ ctor.at = "raised"
        /\ ctor.runners = {}
        /\ ctor.prepared_exposure_query[1].raised
        /\ ctor.prepared_exposure_query[1].error \notin GenericExceptionKinds

\* C15: the exposure query is the implicit one when the count query uses a
\* math aggregation, otherwise the provided one whenever an exposure query is
\* provided (data-warehouse count queries included), otherwise the default.
C15_ExposureCasePrecedence ==
    ExposurePrepared =>
        LET r == ctor.prepared_exposure_query[1]
        IN  /\ r.raised => MetricUsesMathAggregation
            /\ ~r.raised =>
                 r.case = IF MetricUsesMathAggregation THEN "implicit"
                          ELSE IF query.exposure_query THEN "provided"
                          ELSE "default"

CacheHours == 24

BothCacheCalls == cache.target_age # <<>> /\ cache.is_stale # <<>>

\* C17: cache_target_age is None without a refresh and last_refresh + 24h
\* otherwise; _is_stale is true without a refresh and otherwise true exactly
\* when more than 24 hours have passed, that is exactly when the current time
\* is strictly after cache_target_age(last_refresh); at exactly 24 hours the
\* result is not stale.
C17_StaleAfter24Hours ==
    /\ cache.target_age # <<>> =>
         IF clock.last_refresh = <<>>
         THEN cache.target_age[1] = <<>>
         ELSE cache.target_age[1] = <<clock.last_refresh[1] + CacheHours>>
    /\ cache.is_stale # <<>> =>
         IF clock.last_refresh = <<>>
         THEN cache.is_stale[1]
         ELSE /\ cache.is_stale[1]
                   <=> clock.now - clock.last_refresh[1] > CacheHours
              /\ clock.now - clock.last_refresh[1] = CacheHours
                   => ~cache.is_stale[1]
    /\ (BothCacheCalls /\ clock.last_refresh # <<>>) =>
         (cache.is_stale[1] <=> clock.now > cache.target_age[1][1])

\* C17 witness: exactly 24 hours after the refresh the result is not stale
C17_Witness ==
    /\ BothCacheCalls
    /\ clock.last_refresh # <<>>
    /\ clock.now = clock.last_refresh[1] + 24
    /\ clock.now = cache.target_age[1][1]
    /\ ~cache.is_stale[1]

====
